---- MODULE Spec2Model ----
(***************************************************************************)
(* Four-fold synonymous site extraction (class FFextract, ffExtract.cpp):  *)
(* the record cursor getNextRecord_, its overlap resolution, and the codon *)
(* classifier getFFsites_, driven over a sorted CDS FASTA stream.          *)
(***************************************************************************)
EXTENDS Integers, Sequences, FiniteSets, TLC

(* ------------------------------ bounds --------------------------------- *)
MaxRecords == 3
MaxStart   == 3
MaxLen     == 4

(* -------------------------- machine constants -------------------------- *)
\* size_t arithmetic is modular; the width is scaled down to what the model
\* checker's integers can hold, the wrap-around itself is kept.
SizeMod       == 2^30
\* std::string::max_size(): a resize beyond it throws std::length_error
StringMaxSize == 2^29
\* what a read past the end of positions_ may deliver: a word that is no
\* coordinate of the run, or a fault of the process
OOBValues     == {0, SizeMod - 1}
SegFault      == -1
\* value of codon[1] when the codon has one base only (the terminator)
NUL           == "nul"

(* ------------------------------ helpers -------------------------------- *)
Last(s) == s[Len(s)]

Asc(s, e)  == [k \in 1..(e - s + 1) |-> s + k - 1]
\* a countdown that counts up
Desc_countingUp(s, e) == [k \in 1..(e - s + 1) |-> s + k - 1]
Desc(s, e) == [k \in 1..(e - s + 1) |-> e - k + 1]

SeqMax(s) == CHOOSE m \in {s[k] : k \in 1..Len(s)} : \A k \in 1..Len(s) : s[k] <= m
SeqMin(s) == CHOOSE m \in {s[k] : k \in 1..Len(s)} : \A k \in 1..Len(s) : m <= s[k]
Elems(s)  == {s[k] : k \in 1..Len(s)}

\* size_t subtraction
SizeSub(a, b) == (a - b) % SizeMod

(* ----------------------------- parseHeader_ ---------------------------- *)
\* A header line carries the text of its loc= field (what follows "loc=", one
\* character per element) and the FBgn digits of parent=.
Drop(s, n)  == SubSeq(s, n + 1, Len(s))
Take(s, n)  == SubSeq(s, 1, IF n < Len(s) THEN n ELSE Len(s))
DropLast(s) == SubSeq(s, 1, Len(s) - 1)
\* field[0]; the terminator when the string is empty
CharAt0(s)  == IF s = <<>> THEN NUL ELSE s[1]
HasPrefix(s, p) == Len(s) >= Len(p) /\ SubSeq(s, 1, Len(p)) = p
\* 1-based index of the first / last c in s, 0 when there is none (npos)
FindFirst(s, c) ==
    IF \E k \in 1..Len(s) : s[k] = c
    THEN CHOOSE k \in 1..Len(s) : s[k] = c /\ \A j \in 1..(k - 1) : s[j] # c
    ELSE 0
FindLast(s, c) ==
    IF \E k \in 1..Len(s) : s[k] = c
    THEN CHOOSE k \in 1..Len(s) : s[k] = c /\ \A j \in (k + 1)..Len(s) : s[j] # c
    ELSE 0

DecDigits == {"0", "1", "2", "3", "4", "5", "6", "7", "8", "9"}
DigitVal ==
    [c \in DecDigits \cup {"a", "b", "c", "d", "e", "f", "A", "B", "C", "D", "E", "F"} |->
        CASE c = "0" -> 0 [] c = "1" -> 1 [] c = "2" -> 2 [] c = "3" -> 3
          [] c = "4" -> 4 [] c = "5" -> 5 [] c = "6" -> 6 [] c = "7" -> 7
          [] c = "8" -> 8 [] c = "9" -> 9
          [] c \in {"a", "A"} -> 10 [] c \in {"b", "B"} -> 11
          [] c \in {"c", "C"} -> 12 [] c \in {"d", "D"} -> 13
          [] c \in {"e", "E"} -> 14 [] c \in {"f", "F"} -> 15]

\* strtoul(text, NULL, 0): the longest prefix of digits of the base the text
\* announces (0x: 16, leading 0: 8, else 10); 0 when there is no such prefix.
\* The headers of the model carry no white space and no sign.
RECURSIVE strtoulFrom(_, _, _, _)
strtoulFrom(s, k, base, acc) ==
    IF k > Len(s) \/ s[k] \notin DOMAIN DigitVal THEN acc
    ELSE IF DigitVal[s[k]] >= base THEN acc
         ELSE strtoulFrom(s, k + 1, base, acc * base + DigitVal[s[k]])

strtoul(s) ==
    IF Len(s) >= 3 /\ s[1] = "0" /\ s[2] \in {"x", "X"} /\ s[3] \in DOMAIN DigitVal
    THEN strtoulFrom(s, 3, 16, 0)
    ELSE IF s # <<>> /\ s[1] = "0" THEN strtoulFrom(s, 2, 8, 0)
         ELSE strtoulFrom(s, 1, 10, 0)

\* <<start, end>> of one START..END text
getNumbers_(range) ==
    LET p == FindFirst(range, ".")
        q == FindLast(range, ".")
    IN  << strtoul(IF p = 0 THEN range ELSE SubSeq(range, 1, p - 1)),
           strtoul(Drop(range, q)) >>

\* the getline(fSS, curRange, ',') loop
RECURSIVE Split(_, _)
Split(s, d) ==
    IF s = <<>> THEN <<>>
    ELSE LET p == FindFirst(s, d)
         IN  IF p = 0 THEN <<s>> ELSE <<SubSeq(s, 1, p - 1)>> \o Split(Drop(s, p), d)

RECURSIVE EnumFwd(_, _)
EnumFwd(ranges, k) ==
    IF k > Len(ranges) THEN <<>>
    ELSE Asc(ranges[k][1], ranges[k][2]) \o EnumFwd(ranges, k + 1)

RECURSIVE EnumRev(_, _)
EnumRev(ranges, k) ==
    IF k < 1 THEN <<>>
    ELSE Desc(ranges[k][1], ranges[k][2]) \o EnumRev(ranges, k - 1)

\* the chromosome switch on field[0]; rest is the field after the erase
parseChr(field) ==
    IF CharAt0(field) \in {"X", "4"}
    THEN [ok |-> TRUE, chr |-> <<field[1]>>, rest |-> Drop(field, 2)]
    ELSE IF CharAt0(field) \in {"3", "2"}
         THEN [ok |-> TRUE, chr |-> Take(field, 2), rest |-> Drop(field, 3)]
         ELSE [ok |-> FALSE, chr |-> <<>>, rest |-> field]

\* one START..END that stands alone; se is what getNumbers_ made of it
singleRange(field, se, complemented) ==
    IF Len(field) <= 2 \/ se[1] >= se[2]
    THEN [ok |-> FALSE, positions |-> <<>>]
    ELSE [ok |-> TRUE,
          positions |-> IF complemented THEN Desc(se[1], se[2]) ELSE Asc(se[1], se[2])]

\* the ranges of a join, each as getNumbers_ made it
joinRanges(ranges, complemented) ==
    IF \E k \in 1..Len(ranges) : ranges[k][1] >= ranges[k][2]
    THEN [ok |-> FALSE, positions |-> <<>>]
    ELSE [ok |-> TRUE,
          positions |-> IF complemented THEN EnumRev(ranges, Len(ranges))
                                        ELSE EnumFwd(ranges, 1)]

numbersOf(toks) == [k \in 1..Len(toks) |-> getNumbers_(toks[k])]

\* the position list of the location text left after the chromosome
parseRanges(field, complemented) ==
    IF CharAt0(field) \in DecDigits
    THEN singleRange(field, getNumbers_(field), complemented)
    ELSE IF CharAt0(field) = "j"
         THEN joinRanges(numbersOf(Split(DropLast(Drop(field, 5)), ",")), complemented)
         ELSE [ok |-> FALSE, positions |-> <<>>]

\* c is the outcome of the chromosome switch, r that of the position list
headerOutcome(c, r, fbgn) ==
    IF ~c.ok \/ ~r.ok
    THEN [ok |-> FALSE, positions |-> <<>>, chr |-> c.chr, fbgn |-> <<>>]
    ELSE [ok |-> TRUE, positions |-> r.positions, chr |-> c.chr, fbgn |-> fbgn]

\* the field once its closing ';' is gone: complement( ) is unwrapped
parseLocation(f1) ==
    IF CharAt0(f1) = "c" THEN parseRanges(DropLast(Drop(f1, 11)), TRUE)
    ELSE parseRanges(f1, FALSE)

parseAfterChr(c, fbgn) == headerOutcome(c, parseLocation(DropLast(c.rest)), fbgn)

\* erase(end() - 1) of an empty string is undefined; no header of the model
\* leaves the field empty at that point.
parseHeader_(h) ==
    parseAfterChr(parseChr(IF HasPrefix(h.loc, <<"S", "c", "f", "_">>)
                           THEN Drop(h.loc, 4) ELSE h.loc),
                  h.fbgn)

\* a parse that appends to the list it is handed
outParamsAfter_listKept(prior, h) ==
    [prior EXCEPT !.positions = @ \o h.positions, !.chr = h.chr, !.fbgn = h.fbgn]

\* The three reference parameters after the call: positions.clear() comes
\* first, every coordinate is pushed behind it, chr and fbgn are assigned.
outParamsAfter(prior, h) ==
    [prior EXCEPT !.positions = h.positions, !.chr = h.chr, !.fbgn = h.fbgn]

(* ------------------------------ getFFsites_ ---------------------------- *)
\* a classifier that leaves the first base of the codon unread
codonQualifies_firstBaseUnread(sequence, i) ==
    LET c1 == IF i + 2 <= Len(sequence) THEN sequence[i + 2] ELSE NUL
    IN  c1 # "A"

\* One codon at 0-based offset i of sequence: does it append a site record?
codonQualifies(sequence, i) ==
    LET c0 == sequence[i + 1]
        c1 == IF i + 2 <= Len(sequence) THEN sequence[i + 2] ELSE NUL
    IN  IF c1 = "A" THEN FALSE
        ELSE IF c1 = "T" THEN c0 \in {"C", "G"}
        ELSE IF c1 = "C" THEN TRUE
        ELSE c0 \in {"C", "G"}

\* The scan of getFFsites_ from offset i on; g is what a read past the end of
\* positions yields.  Returns the records appended and whether the process
\* faulted on such a read.
RECURSIVE ffScan(_, _, _, _, _, _)
ffScan(positions, sequence, chr, fbgn, i, g) ==
    IF i >= Len(sequence) THEN [sites |-> <<>>, fault |-> FALSE]
    ELSE IF ~codonQualifies(sequence, i)
         THEN ffScan(positions, sequence, chr, fbgn, i + 3, g)
         ELSE IF i + 4 > Len(positions) /\ g = SegFault
              THEN [sites |-> <<>>, fault |-> TRUE]
              ELSE LET p    == IF i + 4 <= Len(positions) THEN positions[i + 4] ELSE g
                       rest == ffScan(positions, sequence, chr, fbgn, i + 3, g)
                   IN  [sites |-> <<[chr |-> chr, fbgn |-> fbgn, pos |-> p]>> \o rest.sites,
                        fault |-> rest.fault]

\* a classifier that pushes the sites of a record last codon first
getFFsites__lastCodonFirst(st, g) ==
    LET r == ffScan(st.positions_, st.sequence_, st.chr_, st.fbgn_, 0, g)
    IN  [st EXCEPT !.ffSites_ = @ \o [n \in 1..Len(r.sites) |-> r.sites[Len(r.sites) - n + 1]],
                   !.ffCalls  = Append(@, [positions |-> st.positions_,
                                           sequence  |-> st.sequence_,
                                           chr       |-> st.chr_,
                                           fbgn      |-> st.fbgn_]),
                   !.status   = IF r.fault THEN "error" ELSE @]

\* getFFsites_ on the object st; every invocation is also recorded in ffCalls
getFFsites_(st, g) ==
    LET r == ffScan(st.positions_, st.sequence_, st.chr_, st.fbgn_, 0, g)
    IN  [st EXCEPT !.ffSites_ = @ \o r.sites,
                   !.ffCalls  = Append(@, [positions |-> st.positions_,
                                           sequence  |-> st.sequence_,
                                           chr       |-> st.chr_,
                                           fbgn      |-> st.fbgn_]),
                   !.status   = IF r.fault THEN "error" ELSE @]

(* --------------------------- overlap resolution ------------------------ *)
RECURSIVE countFromBack(_, _, _)
countFromBack(p, thr, k) ==
    IF k < 1 THEN 0
    ELSE IF p[k] >= thr THEN 1 + countFromBack(p, thr, k - 1) ELSE 0

RECURSIVE countFromFront(_, _, _)
countFromFront(p, thr, k) ==
    IF k > Len(p) THEN 0
    ELSE IF p[k] >= thr THEN 1 + countFromFront(p, thr, k + 1) ELSE 0

\* number of pending positions at or beyond the candidate's first genomic
\* coordinate, walked from the pending record's genomically high end
overlapCount(positions, pendFwd, thr) ==
    IF pendFwd THEN countFromBack(positions, thr, Len(positions))
               ELSE countFromFront(positions, thr, 1)

\* delLength_ = delLength_ + (delLength_%3)
roundDelLength(d) == d + (d % 3)

Log(st, kind, a, b) == [st EXCEPT !.logFile_ = Append(@, [kind |-> kind, a |-> a, b |-> b])]

\* the candidate with its overlapping (genomically low) end removed
truncCand(curPos, candFwd, d) ==
    IF candFwd THEN SubSeq(curPos, d + 1, Len(curPos))
               ELSE SubSeq(curPos, 1, Len(curPos) - d)

adopt(st, pos, chr, fbgn, candFwd) ==
    [st EXCEPT !.positions_ = pos,
               !.end_       = IF candFwd THEN Last(pos) ELSE pos[1],
               !.chr_       = chr,
               !.fbgn_      = fbgn]

\* truncation of the pending record by d and its classification; d is below
\* positions_.size().  A forward pending record is cut with resize(), whose
\* argument sequence_.size() - delLength_ is an unsigned difference.
truncPendingAndFlush(st, pendFwd, d, g) ==
    IF pendFwd
    THEN LET s1 == [st EXCEPT !.positions_ = SubSeq(@, 1, Len(@) - d)]
             n  == SizeSub(Len(st.sequence_), d)
         IN  IF n > StringMaxSize
             THEN [s1 EXCEPT !.status = "error"]
             ELSE getFFsites_([s1 EXCEPT !.sequence_ = SubSeq(@, 1, n)], g)
    ELSE getFFsites_([st EXCEPT !.positions_ = SubSeq(@, d + 1, Len(@)),
                                !.sequence_  = SubSeq(@, d + 1, Len(@))], g)

partialOverlap(st, curPos, curChr, curFBgn, pendFwd, candFwd, d, g) ==
    LET s0 == IF pendFwd THEN [st EXCEPT !.delStart_ = SizeSub(Len(st.positions_), d)] ELSE st
        s1 == truncPendingAndFlush(s0, pendFwd, d, g)
    IN  IF s1.status # "running" THEN s1
        ELSE adopt(s1, truncCand(curPos, candFwd, d), curChr, curFBgn, candFwd)

\* bothDeleted without positions_.clear(): the dropped pending record stays
bothDeleted_keepsPositions(st, curFBgn, pendFwd) ==
    LET s0 == Log(st, "both_deleted", st.fbgn_, curFBgn)
        s1 == IF pendFwd THEN [s0 EXCEPT !.delStart_ = 0] ELSE s0
    IN  [s1 EXCEPT !.sequence_ = <<>>]

bothDeleted(st, curFBgn, pendFwd) ==
    LET s0 == Log(st, "both_deleted", st.fbgn_, curFBgn)
        s1 == IF pendFwd THEN [s0 EXCEPT !.delStart_ = 0] ELSE s0
    IN  [s1 EXCEPT !.positions_ = <<>>, !.sequence_ = <<>>]

pendingDeleted(st, curPos, curChr, curFBgn, pendFwd, candFwd, d) ==
    LET s0 == Log(st, "pending_deleted", st.fbgn_, curFBgn)
        cut == truncCand(curPos, candFwd, d)
        s1 == IF ~pendFwd THEN s0
              ELSE IF candFwd
                   THEN [s0 EXCEPT !.delStart_ = SizeSub(Len(curPos), d)]
                   ELSE [s0 EXCEPT !.delStart_ = SizeSub(Len(cut), d)]
    IN  adopt(s1, cut, curChr, curFBgn, candFwd)

\* a resolution that hands chr_ and fbgn_ over before the pending record is
\* classified
pendingDeletesCandidate_namesFirst(st, curChr, curFBgn, pendFwd, d, g) ==
    LET s0 == Log(st, "deletes", st.fbgn_, curFBgn)
        s1 == truncPendingAndFlush([s0 EXCEPT !.chr_ = curChr, !.fbgn_ = curFBgn],
                                   pendFwd, d, g)
    IN  IF s1.status # "running" THEN s1
        ELSE LET s2 == [s1 EXCEPT !.positions_ = <<>>, !.end_ = 0]
             IN  IF pendFwd THEN [s2 EXCEPT !.delStart_ = 0] ELSE s2

pendingDeletesCandidate(st, curChr, curFBgn, pendFwd, d, g) ==
    LET s0 == Log(st, "deletes", st.fbgn_, curFBgn)
        s1 == truncPendingAndFlush(s0, pendFwd, d, g)
    IN  IF s1.status # "running" THEN s1
        ELSE LET s2 == [s1 EXCEPT !.positions_ = <<>>, !.end_ = 0,
                                  !.chr_ = curChr, !.fbgn_ = curFBgn]
             IN  IF pendFwd THEN [s2 EXCEPT !.delStart_ = 0] ELSE s2

\* the overlap test of a candidate header against the slot
overlaps(curPos, candFwd, end) ==
    IF candFwd THEN curPos[1] < end ELSE Last(curPos) < end

resolveOverlap(st, curPos, curChr, curFBgn, g) ==
    LET candFwd == curPos[1] < Last(curPos)
        pendFwd == st.positions_[1] < Last(st.positions_)
        thr     == IF candFwd THEN curPos[1] ELSE Last(curPos)
        s0      == Log(st, "overlap", st.fbgn_, curFBgn)
        d       == roundDelLength(overlapCount(st.positions_, pendFwd, thr))
        s1      == IF pendFwd THEN [s0 EXCEPT !.delLength_ = d]
                              ELSE [s0 EXCEPT !.delLength_ = d, !.delStart_ = 0]
        pn      == Len(st.positions_)
        cn      == Len(curPos)
    IN  IF d < pn /\ d < cn
        THEN partialOverlap(s1, curPos, curChr, curFBgn, pendFwd, candFwd, d, g)
        ELSE IF d >= pn
             THEN IF d >= cn
                  THEN bothDeleted(s1, curFBgn, pendFwd)
                  ELSE pendingDeleted(s1, curPos, curChr, curFBgn, pendFwd, candFwd, d)
             ELSE pendingDeletesCandidate(s1, curChr, curFBgn, pendFwd, d, g)

(* ----------------------------- getNextRecord_ -------------------------- *)
\* a header line: the body of `if (curLine[0] == '>')`
headerParsed(s0, h, g) ==
        IF ~h.ok THEN [s0 EXCEPT !.status = "error"]
        ELSE IF h.chr # s0.chr_
        THEN LET s1 == getFFsites_(Log(s0, "switch", s0.chr_, h.chr), g)
             IN  IF s1.status # "running" THEN s1
                 ELSE [s1 EXCEPT !.positions_ = h.positions,
                                 !.end_       = IF h.positions[1] < Last(h.positions)
                                                THEN Last(h.positions) ELSE h.positions[1],
                                 !.chr_       = h.chr,
                                 !.fbgn_      = h.fbgn,
                                 !.delLength_ = 0]
        ELSE IF s0.positions_ = <<>>
        THEN LET s1 == Log(s0, "empty", s0.fbgn_, h.fbgn)
             IN  [s1 EXCEPT !.positions_ = h.positions,
                            !.end_       = IF h.positions[1] < Last(h.positions)
                                           THEN Last(h.positions) ELSE h.positions[1],
                            !.chr_       = h.chr,
                            !.fbgn_      = h.fbgn,
                            !.delLength_ = 0]
        ELSE IF overlaps(h.positions, h.positions[1] < Last(h.positions), s0.end_)
        THEN resolveOverlap(s0, h.positions, h.chr, h.fbgn, g)
        ELSE LET s1 == getFFsites_(s0, g)
             IN  IF s1.status # "running" THEN s1
                 ELSE [adopt(s1, h.positions, h.chr, h.fbgn,
                             h.positions[1] < Last(h.positions))
                         EXCEPT !.delLength_ = 0]

headerLine(st, line, g) ==
    headerParsed([st EXCEPT !.header_ = line], parseHeader_(line), g)

\* a sequence line that is looked at and left in the stream
sequenceLine_lineUnread(st, line) == [st EXCEPT !.pos = @ - 1]

\* a sequence line: the else branch, which ends the call
sequenceLine(st, line) ==
    IF st.positions_ = <<>> THEN st
    ELSE IF st.delLength_ # 0
         THEN IF st.delStart_ > Len(line.bases)
              THEN [st EXCEPT !.status = "error"]
              ELSE LET n == IF st.delLength_ < Len(line.bases) - st.delStart_
                            THEN st.delLength_ ELSE Len(line.bases) - st.delStart_
                   IN  [st EXCEPT !.sequence_ =
                            SubSeq(line.bases, 1, st.delStart_)
                            \o SubSeq(line.bases, st.delStart_ + n + 1, Len(line.bases))]
         ELSE [st EXCEPT !.sequence_ = line.bases]

\* while(getline(fastaFile_, curLine)) { ... }
RECURSIVE readLoop(_, _, _)
readLoop(st, lines, g) ==
    IF st.pos >= Len(lines) THEN st
    ELSE LET line == lines[st.pos + 1]
             s0   == [st EXCEPT !.pos = @ + 1]
         IN  IF line.kind = "H"
             THEN LET s1 == headerLine(s0, line, g)
                  IN  IF s1.status # "running" THEN s1 ELSE readLoop(s1, lines, g)
             ELSE sequenceLine(s0, line)

getNextRecord_(st, lines, g) ==
    readLoop([st EXCEPT !.sequence_ = <<>>], lines, g)

(* ------------------------------- the input ----------------------------- *)
Chromosomes == << <<"2", "L">>, <<"X">> >>

\* the bases of the sequence lines; no period, so that a cut at the wrong
\* end of a line shows
Bases == <<"G", "C", "T", "C", "G", "A", "T", "C", "C", "A", "G", "G", "T",
           "A", "C", "G", "T", "T", "G", "C">>

Fbgn(i) == <<"g", i>>

\* decimal text of a coordinate
DigitChar == <<"0", "1", "2", "3", "4", "5", "6", "7", "8", "9">>
RECURSIVE ToStr(_)
ToStr(n) == IF n < 10 THEN <<DigitChar[n + 1]>>
            ELSE ToStr(n \div 10) \o <<DigitChar[(n % 10) + 1]>>

\* one START..END as written in a header: its text, and what it was written from
RangeOf(s, e) == [s |-> s, e |-> e, numeric |-> TRUE,
                  txt |-> ToStr(s) \o <<".", ".">> \o ToStr(e)]

RECURSIVE CommaJoin(_, _)
CommaJoin(ranges, k) ==
    IF k > Len(ranges) THEN <<>>
    ELSE ranges[k].txt \o (IF k < Len(ranges) THEN <<",">> ELSE <<>>) \o CommaJoin(ranges, k + 1)

\* the loc= text of a location d = [scf, chr, compl, join, ranges]
LocText(d) ==
    LET inner == IF d.join
                 THEN <<"j", "o", "i", "n", "(">> \o CommaJoin(d.ranges, 1) \o <<")">>
                 ELSE d.ranges[1].txt
    IN  (IF d.scf THEN <<"S", "c", "f", "_">> ELSE <<>>) \o d.chr \o <<":">>
        \o (IF d.compl
            THEN <<"c", "o", "m", "p", "l", "e", "m", "e", "n", "t", "(">> \o inner \o <<")">>
            ELSE inner)
        \o <<";">>

NoLoc == [scf |-> FALSE, chr |-> <<>>, compl |-> FALSE, join |-> FALSE, ranges |-> <<>>]

\* a header line: loc and fbgn are what the file holds, written is the
\* location the text was written from (nothing of the program reads it)
HeaderLine(d, id) ==
    [kind |-> "H", loc |-> LocText(d), fbgn |-> Fbgn(id), bases |-> <<>>, written |-> d]

HeaderOf(chr, s, e, rev, id) ==
    HeaderLine([scf |-> FALSE, chr |-> chr, compl |-> rev, join |-> FALSE,
                ranges |-> <<RangeOf(s, e)>>], id)

SeqLine(bases) ==
    [kind |-> "S", loc |-> <<>>, fbgn |-> <<>>, bases |-> bases, written |-> NoLoc]

SeqLineOf(n) == SeqLine(SubSeq(Bases, 1, n))

RecChoices == [c : 1..Len(Chromosomes), start : 1..MaxStart, len : 2..MaxLen, rev : BOOLEAN]

\* grouped by chromosome, strictly ascending start within a chromosome
InOrder(a, b) == (a.c = b.c /\ a.start < b.start) \/ a.c < b.c

\* the record lists of exactly n records that respect the order
RECURSIVE RecLists(_)
RecLists(n) ==
    IF n = 1 THEN {<<r>> : r \in RecChoices}
    ELSE UNION { {Append(s, r) : r \in {q \in RecChoices : InOrder(s[n - 1], q)}}
                 : s \in RecLists(n - 1) }

\* the ordered record lists of up to maxRecords records
SortedRecLists(maxRecords) == UNION {RecLists(n) : n \in 1..maxRecords}

RECURSIVE LinesOf(_, _)
LinesOf(s, i) ==
    IF i > Len(s) THEN <<>>
    ELSE << HeaderOf(Chromosomes[s[i].c], s[i].start, s[i].start + s[i].len - 1, s[i].rev, i),
            SeqLineOf(s[i].len) >> \o LinesOf(s, i + 1)

\* the two worked examples: A = 100..109 followed by B = 108..120, and
\* A = 100..109 followed by B = 101..105, all forward on one chromosome
ExampleStreams ==
    { << HeaderOf(Chromosomes[1], 100, 109, FALSE, 1), SeqLineOf(10),
         HeaderOf(Chromosomes[1], 108, 120, FALSE, 2), SeqLineOf(13) >>,
      << HeaderOf(Chromosomes[1], 100, 109, FALSE, 1), SeqLineOf(10),
         HeaderOf(Chromosomes[1], 101, 105, FALSE, 2), SeqLineOf(5) >> }

\* the input streams of the model, of up to maxRecords records
Streams(maxRecords) ==
    {LinesOf(s, 1) : s \in SortedRecLists(maxRecords)} \cup ExampleStreams

(* ------------------------------- the state ----------------------------- *)
VARIABLES input, pos, header_, sequence_, positions_, end_, chr_, fbgn_,
          delStart_, delLength_, ffSites_, logFile_, ffCalls, status,
          outParams, outFile, exitCode,
          fastaIn, curRecord, curPos, curChr, outData, fastaOut, chrDone, sortPhase,
          axtFile_, sameChr_, primaryStart_, primaryEnd_, alignedStart_, alignedEnd_,
          chrID_, primarySeq_, alignSeq_, foundChr_, sites, length, axtStatus

cursor == <<pos, header_, sequence_, positions_, end_, chr_, fbgn_,
            delStart_, delLength_, ffSites_, logFile_, ffCalls, status>>

\* main of getFFsites: the output file and how the process ended
main == <<outFile, exitCode>>

\* main of fastaSort: its locals, the records read and the lines written
sorter == <<fastaIn, curRecord, curPos, curChr, outData, fastaOut, chrDone, sortPhase>>

\* a ParseAXT object, and the sites vector and length of its caller
axt == <<axtFile_, sameChr_, primaryStart_, primaryEnd_, alignedStart_, alignedEnd_,
         chrID_, primarySeq_, alignSeq_, foundChr_, sites, length, axtStatus>>

vars == <<input, cursor, outParams, main, sorter, axt>>

Obj == [pos |-> pos, header_ |-> header_, sequence_ |-> sequence_,
        positions_ |-> positions_, end_ |-> end_, chr_ |-> chr_, fbgn_ |-> fbgn_,
        delStart_ |-> delStart_, delLength_ |-> delLength_, ffSites_ |-> ffSites_,
        logFile_ |-> logFile_, ffCalls |-> ffCalls, status |-> status]

Becomes(st) ==
    /\ pos' = st.pos
    /\ header_' = st.header_
    /\ sequence_' = st.sequence_
    /\ positions_' = st.positions_
    /\ end_' = st.end_
    /\ chr_' = st.chr_
    /\ fbgn_' = st.fbgn_
    /\ delStart_' = st.delStart_
    /\ delLength_' = st.delLength_
    /\ ffSites_' = st.ffSites_
    /\ logFile_' = st.logFile_
    /\ ffCalls' = st.ffCalls
    /\ status' = st.status
    /\ UNCHANGED <<input, outParams, main, sorter, axt>>

\* vector<uint64_t> curPos; string curChr; string curFBgn;
FreshParams == [positions |-> <<>>, chr |-> <<>>, fbgn |-> <<>>]

\* FFextract(fastaName, logName)
Constructed(streams, params) ==
    /\ input \in streams
    /\ outParams \in params
    /\ outFile = <<>>
    /\ exitCode = "none"
    /\ pos = 0
    /\ header_ = <<>>
    /\ sequence_ = <<>>
    /\ positions_ = <<>>
    /\ end_ = 0
    /\ chr_ = <<>>
    /\ fbgn_ = <<>>
    /\ delStart_ = 0
    /\ delLength_ = 0
    /\ ffSites_ = <<>>
    /\ logFile_ = <<>>
    /\ ffCalls = <<>>
    /\ status = "running"

\* an empty line, and vector<string> curRecord(2)
EmptyLine == [kind |-> "H", loc |-> <<>>, fbgn |-> <<>>, bases |-> <<>>, written |-> NoLoc]
EmptyRecord == <<EmptyLine, <<>>>>

\* fastaSort before its input is opened
SorterAt(phase) ==
    /\ fastaIn = {}
    /\ curRecord = EmptyRecord
    /\ curPos = 0
    /\ curChr = <<>>
    /\ outData = <<>>
    /\ fastaOut = <<>>
    /\ chrDone = {}
    /\ sortPhase = phase

\* ParseAXT(fileName) up to the body of the constructor: the file is open,
\* every member holds what the initialiser list gives it
Opened(files, state) ==
    /\ axtFile_ \in [lines : files, at : {0}, eof : {FALSE}, fail : {FALSE}]
    /\ sameChr_ = 0
    /\ primaryStart_ = 0
    /\ primaryEnd_ = 0
    /\ alignedStart_ = 0
    /\ alignedEnd_ = 0
    /\ chrID_ = <<>>
    /\ primarySeq_ = <<>>
    /\ alignSeq_ = <<>>
    /\ foundChr_ = <<>>
    /\ sites = <<>>
    /\ length = 0
    /\ axtStatus = state

InitOn(streams) ==
    Constructed(streams, {FreshParams}) /\ SorterAt("idle") /\ Opened({<<>>}, "idle")

Init == InitOn(Streams(MaxRecords))

\* extractFFsites: getNextRecord_ is called again while input remains
moreInput == pos < Len(input)

GetNextRecord ==
    /\ status = "running"
    /\ moreInput
    /\ \E g \in OOBValues \cup {SegFault} : Becomes(getNextRecord_(Obj, input, g))

\* a driver that stops at the end of the input without a last classification
Flush_withoutClassification ==
    /\ status = "running"
    /\ ~moreInput
    /\ Becomes([Obj EXCEPT !.status = "done"])

\* extractFFsites: at the end of the input the pending record is classified
Flush ==
    /\ status = "running"
    /\ ~moreInput
    /\ \E g \in OOBValues \cup {SegFault} :
          LET st == getFFsites_(Obj, g)
          IN  Becomes([st EXCEPT !.status = IF @ = "running" THEN "done" ELSE @])

Next == GetNextRecord \/ Flush

Spec == Init /\ [][Next]_vars

(* ===================== the records of the input stream ================== *)
HeaderIdx == {k \in 1..Len(input) : input[k].kind = "H"}
CoordsOf(k) == Elems(parseHeader_(input[k]).positions)
ChrOf(k)    == parseHeader_(input[k]).chr

\* the step under way: a call of getNextRecord_ that reads a header while a
\* record is pending on the header's chromosome
AtHeader   == status = "running" /\ pos < Len(input) /\ input[pos + 1].kind = "H"
Cand       == parseHeader_(input[pos + 1])
CandMin    == SeqMin(Cand.positions)
CandLine   == IF pos + 2 <= Len(input) THEN input[pos + 2].bases ELSE <<>>
Pending    == AtHeader /\ positions_ # <<>> /\ Cand.chr = chr_
Called     == pos' > pos
\* the overlap of the claim's terms: positions of the pending record at or
\* beyond the candidate's lowest coordinate
OverlapSet == {k \in 1..Len(positions_) : positions_[k] >= CandMin}
Detected   == Len(logFile_') > Len(logFile_) /\ logFile_'[Len(logFile_) + 1].kind = "overlap"

(* ------------------------------------------------------------------------ *)
\* C1: no site record in the sink carries a coordinate that lies in the
\* coordinate lists of two different input records of its chromosome.
C1_NoSharedCoordinateEmitted ==
    \A n \in 1..Len(ffSites_) :
        \A i, j \in HeaderIdx :
            (i # j /\ ChrOf(i) = ffSites_[n].chr /\ ChrOf(j) = ffSites_[n].chr)
                => ~(ffSites_[n].pos \in CoordsOf(i) \cap CoordsOf(j))

\* C2: in every overlap resolution delLength_ is the smallest multiple of 3
\* that is not below the overlap count.
C2_DelLengthIsCeilingMultipleOf3 ==
    [][(Pending /\ Called /\ Detected)
          => LET oc == Cardinality(OverlapSet)
             IN  delLength_' % 3 = 0 /\ oc <= delLength_' /\ delLength_' < oc + 3]_vars
\* what is left of list s (parallel to the coordinates p) when the d
\* genomically highest, resp. lowest, coordinates of p are removed
RECURSIVE Pick(_, _, _)
Pick(s, keep, k) ==
    IF k > Len(s) THEN <<>>
    ELSE (IF k \in keep THEN <<s[k]>> ELSE <<>>) \o Pick(s, keep, k + 1)

KeepLow(p, d)  == {k \in 1..Len(p) : Cardinality({j \in 1..Len(p) : p[j] > p[k]}) >= d}
KeepHigh(p, d) == {k \in 1..Len(p) : Cardinality({j \in 1..Len(p) : p[j] < p[k]}) >= d}
DropHighEnd(s, p, d) == Pick(s, KeepLow(p, d), 1)
DropLowEnd(s, p, d)  == Pick(s, KeepHigh(p, d), 1)

\* the pending record as getFFsites_ should see it after losing d
\* coordinates and bases at its genomically high end
TruncatedPending(d) ==
    [positions |-> DropHighEnd(positions_, positions_, d),
     sequence  |-> DropHighEnd(sequence_, positions_, d),
     chr       |-> chr_,
     fbgn      |-> fbgn_]

\* C3: partial overlap: the pending record loses delLength coordinates and
\* bases at its high end and is classified at once, the candidate loses
\* delLength coordinates at its low end and becomes the pending record.
C3_PartialOverlapDisposition ==
    [][(Pending /\ Called /\ Detected
          /\ delLength_' < Len(positions_) /\ delLength_' < Len(Cand.positions))
          => /\ ffCalls' = Append(ffCalls, TruncatedPending(delLength_'))
             /\ positions_' = DropLowEnd(Cand.positions, Cand.positions, delLength_')
             /\ chr_' = Cand.chr
             /\ fbgn_' = Cand.fbgn]_vars

\* C4: A = 100..109 then B = 108..120, both forward: delLength is 3, A is
\* classified as 100..106 with its first 7 bases, B is pending as 111..120
\* with the last 10 bases of its line.
Example1 ==
    << HeaderOf(Chromosomes[1], 100, 109, FALSE, 1), SeqLineOf(10),
       HeaderOf(Chromosomes[1], 108, 120, FALSE, 2), SeqLineOf(13) >>

C4_WorkedExample ==
    (input = Example1 /\ pos > 2)
        => /\ pos >= 4
           /\ delLength_ = 3
           /\ Len(ffCalls) >= 2
           /\ ffCalls[2].positions = Asc(100, 106)
           /\ ffCalls[2].sequence = SubSeq(Bases, 1, 7)
           /\ (pos = 4 => positions_ = Asc(111, 120) /\ sequence_ = SubSeq(Bases, 4, 13))

\* C5: candidate contained: the candidate is dropped and never classified,
\* its sequence line is skipped, the pending record is truncated by
\* delLength at its high end and classified, and the slot is left empty.
C5_CandidateContainedDisposition ==
    [][(Pending /\ Called /\ Detected
          /\ delLength_' < Len(positions_) /\ delLength_' >= Len(Cand.positions))
          => /\ ffCalls' = Append(ffCalls, TruncatedPending(delLength_'))
             /\ positions_' = <<>>
             /\ pos' = pos + 2
             /\ status' = "running"]_vars

\* C6: pending contained: the pending record is dropped unclassified, the
\* sink is unchanged, the candidate loses delLength coordinates at its low
\* end and becomes pending, and the bases removed from its sequence line are
\* those of the removed coordinates.
C6_PendingContainedDisposition ==
    [][(Pending /\ Called /\ Detected
          /\ delLength_' >= Len(positions_) /\ delLength_' < Len(Cand.positions))
          => /\ ffCalls' = ffCalls
             /\ ffSites_' = ffSites_
             /\ positions_' = DropLowEnd(Cand.positions, Cand.positions, delLength_')
             /\ sequence_' = DropLowEnd(CandLine, Cand.positions, delLength_')
             /\ status' = "running"]_vars

\* C7: total mutual overlap: both records are dropped, the sink is left
\* alone by the header and by the candidate's sequence line, and the next
\* header on the chromosome is adopted whole, its sequence line untouched.
AfterBothDeleted == logFile_ # <<>> /\ Last(logFile_).kind = "both_deleted"

C7_TotalMutualOverlap ==
    [][/\ (Pending /\ Called /\ Detected
             /\ delLength_' >= Len(positions_) /\ delLength_' >= Len(Cand.positions))
          => /\ ffSites_' = ffSites_
             /\ ffCalls' = ffCalls
             /\ positions_' = <<>>
             /\ sequence_' = <<>>
             /\ pos' = pos + 2
             /\ status' = "running"
       /\ (AtHeader /\ Called /\ AfterBothDeleted /\ Cand.chr = chr_)
          => /\ positions_ = <<>>
             /\ positions_' = Cand.positions
             /\ sequence_' = CandLine
             /\ ffSites_' = ffSites_
             /\ status' = "running"]_vars

C7_Witness ==
    /\ status = "running"
    /\ \E k \in 1..(Len(logFile_) - 1) :
          logFile_[k].kind = "both_deleted" /\ logFile_[k + 1].kind = "empty"
    /\ Len(positions_) >= 2
    /\ Len(sequence_) = Len(positions_)

\* C8: chromosome switch or no overlap: the pending record is classified
\* untruncated, the candidate is adopted with all its coordinates and its
\* sequence line is stored unmodified.
C8_NoOverlapDisposition ==
    [][(AtHeader /\ Called /\ positions_ # <<>>
          /\ (Cand.chr # chr_ \/ CandMin > SeqMax(positions_)))
          => /\ ffCalls' = Append(ffCalls, TruncatedPending(0))
             /\ positions_' = Cand.positions
             /\ sequence_' = CandLine
             /\ delLength_' = 0]_vars

\* C9: overlap is detected exactly when the candidate's lowest coordinate is
\* at most the pending record's highest coordinate.
C9_OverlapIffStartAtMostEnd ==
    [][(Pending /\ Called) => (Detected <=> CandMin <= SeqMax(positions_))]_vars

\* C10: whenever the pending record has coordinates and a sequence, and at
\* every classification of a record, the two have the same length.
C10_LengthInvariant ==
    /\ (status # "error" /\ positions_ # <<>> /\ sequence_ # <<>>)
          => Len(positions_) = Len(sequence_)
    /\ \A k \in 1..Len(ffCalls) :
          ffCalls[k].positions # <<>>
              => Len(ffCalls[k].positions) = Len(ffCalls[k].sequence)

(* ================== one record through the classifier ================== *)
\* Streams of a single record X:1..n whose sequence line is any text of n
\* letters: every text over the letters of a FASTA line up to MaxMixedLen,
\* and every upper-case text up to MaxPlainLen (two whole codons).
MaxMixedLen == 4
MaxPlainLen == 6

PlainLetters == {"A", "C", "G", "T"}
Letters      == PlainLetters \cup {"a", "c", "g", "t", "N"}

Texts(alphabet, maxLen) == UNION {[1..n -> alphabet] : n \in 2..maxLen}

FFStreams(mixedLen, plainLen) ==
    { << HeaderOf(<<"X">>, 1, Len(b), rev, 1), SeqLine(b) >> :
         b \in Texts(Letters, mixedLen) \cup Texts(PlainLetters, plainLen),
         rev \in BOOLEAN }

InitFF == InitOn(FFStreams(MaxMixedLen, MaxPlainLen))
SpecFF == InitFF /\ [][Next]_vars

\* the codon table of the classifier's contract, on upper-case bases
FourFold(b0, b1) == b1 = "C" \/ (b1 \in {"T", "G"} /\ b0 \in {"C", "G"})

\* 0-based offsets of the complete codons of a sequence
CodonOffsets(seq) == {i \in 0..(Len(seq) - 3) : i % 3 = 0}
PlainCodons(seq)  == \A i \in CodonOffsets(seq) :
                        {seq[i + 1], seq[i + 2], seq[i + 3]} \subseteq PlainLetters
FourFoldCodons(seq) == {i \in CodonOffsets(seq) : FourFold(seq[i + 1], seq[i + 2])}

\* the record of the stream has been classified and the run has ended
Classified == status = "done"

\* C11: over complete upper-case codons the classifier appends one site for
\* a codon exactly when its middle base is C, or its middle base is T or G
\* and its first base is C or G; never more than one site per codon.  (A
\* sequence with trailing bases may carry one further record, see C13.)
C11_CodonTable ==
    (Classified /\ PlainCodons(sequence_))
        => LET K == Cardinality(FourFoldCodons(sequence_))
           IN  IF Len(sequence_) % 3 = 0 THEN Len(ffSites_) = K
               ELSE Len(ffSites_) \in {K, K + 1}

\* CTG qualifies and ATG does not: one site for the two codons
C11_Witness ==
    Classified /\ sequence_ = <<"C", "T", "G", "A", "T", "G">> /\ Len(ffSites_) = 1

\* the coordinates of the third bases of the qualifying complete codons
RECURSIVE ThirdBaseCoords(_, _, _)
ThirdBaseCoords(positions, seq, i) ==
    IF i + 3 > Len(seq) THEN <<>>
    ELSE (IF FourFold(seq[i + 1], seq[i + 2]) THEN <<positions[i + 3]>> ELSE <<>>)
         \o ThirdBaseCoords(positions, seq, i + 3)

\* C12: the site of a qualifying codon at offset i carries the coordinate at
\* index i + 2 of the record's coordinate list, on either strand.
C12_SiteAtThirdBase ==
    (Classified /\ PlainCodons(sequence_) /\ Len(sequence_) % 3 = 0)
        => [k \in 1..Len(ffSites_) |-> ffSites_[k].pos]
              = ThirdBaseCoords(positions_, sequence_, 0)

\* C13: trailing bases beyond the last whole codon produce no site: one
\* classification appends at most floor(length / 3) sites, and exactly the
\* sites of the whole codons.
C13_TrailingBasesIgnored ==
    Classified
        => /\ Len(ffSites_) <= Len(sequence_) \div 3
           /\ PlainCodons(sequence_)
                 => Len(ffSites_) = Cardinality(FourFoldCodons(sequence_))

UpperCase(seq) ==
    [k \in 1..Len(seq) |->
        CASE seq[k] = "a" -> "A" [] seq[k] = "c" -> "C" [] seq[k] = "g" -> "G"
          [] seq[k] = "t" -> "T" [] OTHER -> seq[k]]

\* C14: the classification does not depend on the case of the bases: the
\* sites of a sequence are those of its upper-case spelling.
C14_CaseInsensitive ==
    Classified
        => \E g \in OOBValues :
              ffSites_ = ffScan(positions_, UpperCase(sequence_), chr_, fbgn_, 0, g).sites

(* ========================= the end of the stream ======================= *)
\* the classifications made of what is pending at a state, bases included
OwnCalls == {k \in 1..Len(ffCalls) :
                ffCalls[k] = [positions |-> positions_, sequence |-> sequence_,
                              chr |-> chr_, fbgn |-> fbgn_]}

\* C15: when the input is exhausted while a record is pending, that record
\* is classified with its bases, exactly once, and its sites end the sink.
C15_EndOfStreamFlush ==
    (status = "done" /\ positions_ # <<>>)
        => /\ sequence_ # <<>>
           /\ OwnCalls = {Len(ffCalls)}
           /\ \E g \in OOBValues :
                 LET own == ffScan(positions_, sequence_, chr_, fbgn_, 0, g).sites
                 IN  /\ Len(own) <= Len(ffSites_)
                     /\ SubSeq(ffSites_, Len(ffSites_) - Len(own) + 1, Len(ffSites_)) = own

\* a stream of exactly one record has been read and flushed, with a site
C15_Witness ==
    status = "done" /\ Len(input) = 2 /\ positions_ # <<>> /\ ffSites_ # <<>>

\* the classifications of the record under header k that were given bases
CallsOf(k) == {n \in 1..Len(ffCalls) :
                  ffCalls[n].fbgn = input[k].fbgn /\ ffCalls[n].sequence # <<>>}

\* the record under header k was discarded whole by an overlap resolution
Dropped(k) ==
    \E n \in 1..Len(logFile_) :
       \/ logFile_[n].kind = "both_deleted" /\ input[k].fbgn \in {logFile_[n].a, logFile_[n].b}
       \/ logFile_[n].kind = "pending_deleted" /\ input[k].fbgn = logFile_[n].a
       \/ logFile_[n].kind = "deletes" /\ input[k].fbgn = logFile_[n].b

\* C16: no record is classified twice, and when the run has ended every
\* record has been classified with its bases exactly once, except a record
\* dropped by containment, which never is.
C16_ClassifiedExactlyOnce ==
    /\ \A k \in HeaderIdx : Cardinality(CallsOf(k)) <= 1
    /\ status = "done"
          => \A k \in HeaderIdx :
                Cardinality(CallsOf(k)) = IF Dropped(k) THEN 0 ELSE 1

\* the sites of the whole record under header k, classified on its own
DirectSites(k, g) ==
    LET h == parseHeader_(input[k])
    IN  ffScan(h.positions, input[k + 1].bases, h.chr, h.fbgn, 0, g).sites

RECURSIVE ConcatSites(_, _)
ConcatSites(gs, k) ==
    IF k > Len(input) THEN <<>>
    ELSE (IF input[k].kind = "H" THEN DirectSites(k, gs[k]) ELSE <<>>) \o ConcatSites(gs, k + 1)

\* no two records of one chromosome share or abut past one another: every
\* later record starts beyond the highest coordinate of every earlier one
NoOverlaps ==
    \A j, k \in HeaderIdx :
       (j < k /\ ChrOf(j) = ChrOf(k))
           => SeqMin(parseHeader_(input[k]).positions) > SeqMax(parseHeader_(input[j]).positions)

\* C17: on a stream without overlaps the sink is the concatenation, in
\* stream order, of the sites of each record classified on its own.
C17_ResolverIsNoOp ==
    (status = "done" /\ NoOverlaps)
        => \E gs \in [1..Len(input) -> OOBValues] : ffSites_ = ConcatSites(gs, 1)

(* ===================== one header through the parser =================== *)
\* Streams of a single record whose header is a location written from a
\* chromosome token, an optional Scf_ prefix, an optional complement(), and
\* one range or a join of up to MaxRanges ranges.  The ranges are every
\* START..END over 1..MaxCoord (ascending or not) and three damaged texts.
MaxCoord  == 4
MaxRanges == 2

ValidChr == { <<"X">>, <<"4">>, <<"2", "L">>, <<"2", "R">>, <<"3", "L">>, <<"3", "R">> }
ChrTokens == ValidChr \cup { <<"2", "Z">>, <<"3">>, <<"Y">> }

DamagedRanges ==
    { [s |-> 0, e |-> 3, numeric |-> FALSE, txt |-> <<".", ".", "3">>],
      [s |-> 1, e |-> 3, numeric |-> FALSE, txt |-> <<"1", "x", ".", ".", "3">>],
      [s |-> 1, e |-> 0, numeric |-> FALSE, txt |-> <<"1", ".", ".">>] }

RangeChoices(maxCoord) == {RangeOf(s, e) : s, e \in 1..maxCoord} \cup DamagedRanges

\* every chromosome token, with and without Scf_, on a single range; every
\* single range and join on chromosome X
Locations(maxCoord, maxRanges) ==
    [scf : BOOLEAN, chr : ChrTokens, compl : BOOLEAN, join : {FALSE},
     ranges : [1..1 -> {RangeOf(1, 3), RangeOf(3, 4), RangeOf(12, 15)}]]
    \cup [scf : {FALSE}, chr : {<<"X">>}, compl : BOOLEAN, join : {FALSE},
          ranges : [1..1 -> RangeChoices(maxCoord)]]
    \cup UNION { [scf : {FALSE}, chr : {<<"X">>}, compl : BOOLEAN, join : {TRUE},
                  ranges : [1..n -> RangeChoices(maxCoord)]] : n \in 1..maxRanges }

\* the number of coordinates a location names when its ranges are sound
RECURSIVE WrittenLength(_, _)
WrittenLength(ranges, k) ==
    IF k > Len(ranges) THEN 0
    ELSE (IF ranges[k].numeric /\ ranges[k].s < ranges[k].e
          THEN ranges[k].e - ranges[k].s + 1 ELSE 0) + WrittenLength(ranges, k + 1)

HdrStreams(maxCoord, maxRanges) ==
    { << HeaderLine(d, 1), SeqLineOf(WrittenLength(d.ranges, 1)) >> :
         d \in Locations(maxCoord, maxRanges) }

InitHdr == InitOn(HdrStreams(MaxCoord, MaxRanges))
SpecHdr == InitHdr /\ [][Next]_vars

\* the header of the stream has been read and nothing has happened since
HeaderRead == header_ # <<>> /\ status # "done" /\ Len(ffCalls) <= 1
Written    == input[1].written
SoundRanges(d) == \A k \in 1..Len(d.ranges) : d.ranges[k].numeric /\ d.ranges[k].s < d.ranges[k].e

\* position in the forward enumeration at which range k starts (0-based)
RangeOffset(ranges, k) == WrittenLength(SubSeq(ranges, 1, k - 1), 1)
Reversed(p) == [n \in 1..Len(p) |-> p[Len(p) - n + 1]]

\* p lists START..END of every range, ascending, ranges in header order
IsForwardEnumeration(p, ranges) ==
    /\ Len(p) = WrittenLength(ranges, 1)
    /\ \A k \in 1..Len(ranges) :
          \A m \in 0..(ranges[k].e - ranges[k].s) :
             p[RangeOffset(ranges, k) + m + 1] = ranges[k].s + m

\* C18: a sound header yields, forward, every integer of each START..END
\* ascending with the ranges in header order; complemented, the ranges in
\* reverse header order, each descending; in both cases as many coordinates
\* as the ranges name.
C18_CoordinateEnumeration ==
    (HeaderRead /\ Written.chr \in ValidChr /\ SoundRanges(Written))
        => /\ status # "error"
           /\ Len(positions_) = WrittenLength(Written.ranges, 1)
           /\ IsForwardEnumeration(IF Written.compl THEN Reversed(positions_) ELSE positions_,
                                    Written.ranges)

\* complement(join(1..2,3..4)) has been parsed
C18_Witness ==
    /\ HeaderRead /\ Written.compl /\ Written.join
    /\ Written.ranges = <<RangeOf(1, 2), RangeOf(3, 4)>>
    /\ positions_ = <<4, 3, 2, 1>>

\* C19: a header whose chromosome token is not exactly X, 4, 2L, 2R, 3L or
\* 3R is refused and no record comes of it.
C19_UnknownChromosomeRefused ==
    (HeaderRead /\ Written.chr \notin ValidChr)
        => status = "error" /\ positions_ = <<>>

\* C20: a header with a range whose start is not below its end, or whose
\* start or end is missing or not a number, is refused.
C20_UnsoundRangeRefused ==
    (HeaderRead /\ Written.chr \in ValidChr /\ ~SoundRanges(Written))
        => status = "error" /\ positions_ = <<>>
(* ================= parseHeader_ as a function of the header ============= *)
MaxParseRecords == 2

\* what the three parameters may hold when the call is made
PriorParams ==
    {FreshParams, [positions |-> <<0, 0>>, chr |-> <<"4">>, fbgn |-> Fbgn(0)]}

InitParse ==
    Constructed(Streams(MaxParseRecords), PriorParams) /\ SorterAt("idle") /\ Opened({<<>>}, "idle")

\* parseHeader_(positions, chr, fbgn) on the header line the cursor holds
ParseHeader ==
    /\ status = "running"
    /\ header_ # <<>>
    /\ outParams' = outParamsAfter(outParams, parseHeader_(header_))
    /\ UNCHANGED <<input, cursor, main, sorter, axt>>

NextParse == GetNextRecord \/ Flush \/ ParseHeader

SpecParse == InitParse /\ [][NextParse]_vars

TailStart == MaxStart + MaxLen
TailLength == 3

TailHeader(chr, id) == HeaderOf(chr, TailStart, TailStart + TailLength - 1, FALSE, id)

Tails(id) ==
    { << TailHeader(Last(Chromosomes), id), SeqLineOf(TailLength) >>,
      << TailHeader(<<"Y">>, id), SeqLineOf(TailLength) >>,
      << TailHeader(Last(Chromosomes), id) >>,
      << TailHeader(Last(Chromosomes), id), SeqLineOf(TailLength + 1) >>,
      << TailHeader(Last(Chromosomes), id), SeqLineOf(TailLength - 1) >> }

EndedStreams(maxRecords) ==
    UNION { {LinesOf(s, 1) \o t : t \in Tails(Len(s) + 1)}
            : s \in SortedRecLists(maxRecords - 1) \cup {<<>>} }

InitMain == InitOn(EndedStreams(MaxRecords))

\* oFS << "chr\tFBgn\tpos"
TitleRow == [chr |-> "chr", fbgn |-> "FBgn", pos |-> "pos"]

\* main: extractFFsites has returned; the file is opened and written
WriteOutput ==
    /\ status = "done"
    /\ exitCode = "none"
    /\ outFile' = <<TitleRow>> \o ffSites_
    /\ exitCode' = "0"
    /\ UNCHANGED <<input, cursor, outParams, sorter, axt>>

\* the strings thrown are those of parseHeader_
HeaderFailed == status = "error" /\ header_ # <<>> /\ ~parseHeader_(header_).ok

\* main: a thrown string is caught, printed, and the process exits with 1;
\* any other failure ends the process where it happens
ExitOnError ==
    /\ status = "error"
    /\ exitCode = "none"
    /\ exitCode' = IF HeaderFailed THEN "1" ELSE "abort"
    /\ UNCHANGED <<input, cursor, outParams, outFile, sorter, axt>>

NextMain == GetNextRecord \/ Flush \/ WriteOutput \/ ExitOnError

SpecMain == InitMain /\ [][NextMain]_vars

\* the header the run failed on, and the records before it that were handed
\* whole to the classifier
FailedAt == CHOOSE k \in HeaderIdx : input[k] = header_
FlushedWhole(k) ==
    {j \in HeaderIdx : /\ j < k
                       /\ \E n \in 1..Len(ffCalls) :
                             /\ ffCalls[n].fbgn = input[j].fbgn
                             /\ ffCalls[n].positions = parseHeader_(input[j]).positions}

\* C22: when the run has ended on a header in error, the sites of the records
\* flushed before that header are in the output, and the pending record is
\* still the one read last before the failing header.
C22_PartialOutputKept ==
    (HeaderFailed /\ exitCode # "none")
        => /\ \A j \in FlushedWhole(FailedAt) :
                 \E g \in OOBValues : Elems(DirectSites(j, g)) \subseteq Elems(outFile)
           /\ \A j \in HeaderIdx :
                 (j < FailedAt /\ \A i \in HeaderIdx : ~(j < i /\ i < FailedAt))
                     => fbgn_ = input[j].fbgn /\ chr_ = ChrOf(j)

\* C23: a stream that ends right behind a header line never ends the run
\* as a completed one.
C23_HeaderAtEndIsFatal ==
    (status # "running" /\ input[Len(input)].kind = "H") => status = "error"

\* C24: a record whose sequence line and coordinate list differ in length
\* stops the run with an error and is never handed to the classifier.
C24_LengthMismatchIsFatal ==
    /\ (sequence_ # <<>> /\ Len(sequence_) # Len(positions_)) => status = "error"
    /\ \A n \in 1..Len(ffCalls) :
          ffCalls[n].sequence # <<>> => Len(ffCalls[n].sequence) = Len(ffCalls[n].positions)

(* ========================= the order of the sink ======================== *)
\* the offsets of the qualifying codons of a sequence, ascending
RECURSIVE QualifyingOffsets(_, _)
QualifyingOffsets(seq, i) ==
    IF i >= Len(seq) THEN <<>>
    ELSE (IF codonQualifies(seq, i) THEN <<i>> ELSE <<>>) \o QualifyingOffsets(seq, i + 3)

\* the sites a step has put behind the sink
Appended == SubSeq(ffSites_', Len(ffSites_) + 1, Len(ffSites_'))

MaxSortRecords == 3
MaxSortStart   == 3
MaxGenes       == 2
MaxSeqLines    == 2

\* the header lines of the unsorted file: a chromosome, a range of two
\* coordinates, a gene
SortChrs == { <<"X">>, <<"2", "L">> }
SortHeaders(maxStart, maxGenes) ==
    {HeaderOf(c, st, st + 1, FALSE, id) : c \in SortChrs, st \in 1..maxStart, id \in 1..maxGenes}

InitSort ==
    Constructed({<<>>}, {FreshParams}) /\ SorterAt("reading") /\ Opened({<<>>}, "idle")

\* std::map iterates its keys in ascending order
RECURSIVE SortedKeys(_)
SortedKeys(S) ==
    IF S = {} THEN <<>>
    ELSE LET m == CHOOSE x \in S : \A y \in S : x <= y
         IN  <<m>> \o SortedKeys(S \ {m})

\* the order of the chromosome names as std::map<string, ...> compares them
ChrOrder == << <<"2", "L">>, <<"2", "R">>, <<"3", "L">>, <<"3", "R">>, <<"4">>, <<"X">> >>

\* the loop over the field: every digit in front of the first '.'
RECURSIVE startPosition(_, _)
startPosition(field, k) ==
    IF k > Len(field) \/ field[k] = "." THEN <<>>
    ELSE (IF field[k] \in DecDigits THEN <<field[k]>> ELSE <<>>) \o startPosition(field, k + 1)

\* getFBgnLastPos: the characters behind the last '.', without ';' and ')'
RECURSIVE lastPosText(_, _)
lastPosText(field, k) ==
    IF k < 1 \/ field[k] = "." THEN <<>>
    ELSE lastPosText(field, k - 1) \o (IF field[k] \in {";", ")"} THEN <<>> ELSE <<field[k]>>)

getFBgnLastPos(header) ==
    [fbgn |-> header.fbgn, lastPos |-> strtoul(lastPosText(header.loc, Len(header.loc)))]

\* outData[chr].insert(pair(pos, record)), and the replacement by a longer
\* record when the key is taken
insertRecord(data, chr, key, record) ==
    IF chr \notin DOMAIN data
    THEN [c \in DOMAIN data \cup {chr} |->
             IF c = chr THEN [k \in {key} |-> record] ELSE data[c]]
    ELSE IF key \notin DOMAIN data[chr]
    THEN [data EXCEPT ![chr] = [k \in DOMAIN @ \cup {key} |-> IF k = key THEN record ELSE @[k]]]
    ELSE IF Len(record[2]) > Len(data[chr][key][2])
    THEN [data EXCEPT ![chr][key] = record]
    ELSE data

\* the record read so far goes into the map when the next header arrives
storePrevious(data, chr, key, record) ==
    IF record[1] = EmptyLine THEN data
    ELSE IF (IF HasPrefix(chr, <<"S", "c", "f", "_">>) THEN Drop(chr, 4) ELSE chr) \in Elems(ChrOrder)
    THEN insertRecord(data, IF HasPrefix(chr, <<"S", "c", "f", "_">>) THEN Drop(chr, 4) ELSE chr,
                      key, record)
    ELSE data

\* a header line of the input
SortReadHeader ==
    /\ sortPhase = "reading"
    /\ Cardinality((fastaIn \cup {curRecord}) \ {EmptyRecord}) < MaxSortRecords
    /\ \E h \in SortHeaders(MaxSortStart, MaxGenes) :
          /\ outData' = storePrevious(outData, curChr, curPos, curRecord)
          /\ fastaIn' = IF curRecord[1] = EmptyLine THEN fastaIn ELSE fastaIn \cup {curRecord}
          /\ curRecord' = <<h, <<>>>>
          /\ curChr' = IF FindFirst(h.loc, ":") = 0 THEN h.loc
                       ELSE Take(h.loc, FindFirst(h.loc, ":") - 1)
          /\ curPos' = strtoul(startPosition(h.loc, 1))
    /\ UNCHANGED <<input, cursor, outParams, main, axt, fastaOut, chrDone, sortPhase>>

\* any other line of the input
SortReadSequence ==
    /\ sortPhase = "reading"
    /\ Len(curRecord[2]) < MaxSeqLines
    /\ curRecord' = <<curRecord[1], curRecord[2] \o <<"A">>>>
    /\ UNCHANGED <<input, cursor, outParams, main, axt, fastaIn, curPos, curChr, outData,
                   fastaOut, chrDone, sortPhase>>

\* getline fails: fastaIn.close(), fastaOut.open()
SortEndOfInput ==
    /\ sortPhase = "reading"
    /\ sortPhase' = "writing"
    /\ fastaIn' = IF curRecord[1] = EmptyLine THEN fastaIn ELSE fastaIn \cup {curRecord}
    /\ UNCHANGED <<input, cursor, outParams, main, axt, curRecord, curPos, curChr, outData,
                   fastaOut, chrDone>>

\* chr.second.end()->first reads the key of a node that holds none: the
\* word behind the tree's header node (its node count in libstdc++), or any
\* other word
EndKeyValues(m) == {Cardinality(DOMAIN m)} \cup OOBValues

\* prevFBgn, prevEndPos, prevRecord
NoPrevious == [fbgn |-> <<>>, endPos |-> 0, record |-> EmptyRecord]

\* the loop over the records of one chromosome from the k-th key on; r is the
\* record at that key and cur what getFBgnLastPos reads from its header
RECURSIVE writeLoop(_, _, _, _, _)
writeRecord(m, keys, k, prev, endKey, r, cur) ==
    IF prev.record[1] = EmptyLine
    THEN writeLoop(m, keys, k + 1, [fbgn |-> cur.fbgn, endPos |-> cur.lastPos, record |-> r], endKey)
    ELSE IF cur.fbgn # prev.fbgn
    THEN IF keys[k] = endKey
         THEN <<prev.record, r>> \o writeLoop(m, keys, k + 1, prev, endKey)
         ELSE IF cur.lastPos <= prev.endPos
         THEN writeLoop(m, keys, k + 1, prev, endKey)
         ELSE <<prev.record>>
              \o writeLoop(m, keys, k + 1,
                           [fbgn |-> cur.fbgn, endPos |-> cur.lastPos, record |-> r], endKey)
    ELSE IF Len(prev.record[2]) < Len(r[2])
    THEN IF keys[k] = endKey
         THEN <<r>> \o writeLoop(m, keys, k + 1, prev, endKey)
         ELSE writeLoop(m, keys, k + 1, [prev EXCEPT !.record = r, !.endPos = cur.lastPos], endKey)
    ELSE writeLoop(m, keys, k + 1, prev, endKey)

writeLoop(m, keys, k, prev, endKey) ==
    IF k > Len(keys) THEN <<>>
    ELSE writeRecord(m, keys, k, prev, endKey, m[keys[k]], getFBgnLastPos(m[keys[k]][1]))

\* the chromosomes of outData not yet written, and the one the outer loop
\* comes to next
ChrsLeft == DOMAIN outData \ chrDone
NextChr  == ChrOrder[CHOOSE n \in 1..Len(ChrOrder) :
                        /\ ChrOrder[n] \in ChrsLeft
                        /\ \A j \in 1..(n - 1) : ChrOrder[j] \notin ChrsLeft]

\* one pass of for (auto &chr : outData)
SortWriteChr ==
    /\ sortPhase = "writing"
    /\ ChrsLeft # {}
    /\ \E endKey \in EndKeyValues(outData[NextChr]) :
          fastaOut' = fastaOut \o writeLoop(outData[NextChr], SortedKeys(DOMAIN outData[NextChr]),
                                            1, NoPrevious, endKey)
    /\ chrDone' = chrDone \cup {NextChr}
    /\ UNCHANGED <<input, cursor, outParams, main, axt, fastaIn, curRecord, curPos, curChr,
                   outData, sortPhase>>

\* fastaOut.close()
SortClose ==
    /\ sortPhase = "writing"
    /\ ChrsLeft = {}
    /\ sortPhase' = "closed"
    /\ UNCHANGED <<input, cursor, outParams, main, axt, fastaIn, curRecord, curPos, curChr,
                   outData, fastaOut, chrDone>>

NextSort == SortReadHeader \/ SortReadSequence \/ SortEndOfInput \/ SortWriteChr \/ SortClose

SpecSort == InitSort /\ [][NextSort]_vars

\* chromosome and start of a written record, as its header names them
WrittenChr(n)   == fastaOut[n][1].written.chr
WrittenStart(n) == fastaOut[n][1].written.ranges[1].s

\* C26: the written records are grouped by chromosome, within a chromosome
\* their starts ascend strictly, and no record read with the chromosome and
\* start of a written one is longer than that one.
C26_SortedOutput ==
    /\ \A i, j, k \in 1..Len(fastaOut) :
          (i < j /\ j < k /\ WrittenChr(i) = WrittenChr(k)) => WrittenChr(j) = WrittenChr(i)
    /\ \A i, j \in 1..Len(fastaOut) :
          (i < j /\ WrittenChr(i) = WrittenChr(j)) => WrittenStart(i) < WrittenStart(j)
    /\ \A n \in 1..Len(fastaOut) :
          \A r \in fastaIn :
             (r[1].written.chr = WrittenChr(n) /\ r[1].written.ranges[1].s = WrittenStart(n))
                 => Len(r[2]) <= Len(fastaOut[n][2])

(* =============================== ParseAXT =============================== *)
MaxAxtStart == 2
MaxAxtLen   == 2

Axt == [axtFile_ |-> axtFile_, sameChr_ |-> sameChr_, primaryStart_ |-> primaryStart_,
        primaryEnd_ |-> primaryEnd_, alignedStart_ |-> alignedStart_,
        alignedEnd_ |-> alignedEnd_, chrID_ |-> chrID_, primarySeq_ |-> primarySeq_,
        alignSeq_ |-> alignSeq_, foundChr_ |-> foundChr_, sites |-> sites,
        length |-> length, axtStatus |-> axtStatus]

AxtBecomes(a) ==
    /\ axtFile_' = a.axtFile_
    /\ sameChr_' = a.sameChr_
    /\ primaryStart_' = a.primaryStart_
    /\ primaryEnd_' = a.primaryEnd_
    /\ alignedStart_' = a.alignedStart_
    /\ alignedEnd_' = a.alignedEnd_
    /\ chrID_' = a.chrID_
    /\ primarySeq_' = a.primarySeq_
    /\ alignSeq_' = a.alignSeq_
    /\ foundChr_' = a.foundChr_
    /\ sites' = a.sites
    /\ length' = a.length
    /\ axtStatus' = a.axtStatus
    /\ UNCHANGED <<input, cursor, outParams, main, sorter>>

\* throw of a string: the object stays as it is at that point
Throw(a, what) == [a EXCEPT !.axtStatus = what]

\* A line of the file is the list of its words; the text of the line has
\* one blank between them.
RECURSIVE LineText(_, _)
LineText(line, k) ==
    IF k > Len(line) THEN <<>>
    ELSE line[k] \o (IF k < Len(line) THEN <<" ">> ELSE <<>>) \o LineText(line, k + 1)

\* getline(axtFile_, text): at the end of the file nothing is stored and
\* the stream fails
getlineAxt(f) ==
    IF f.at < Len(f.lines)
    THEN [file |-> [f EXCEPT !.at = @ + 1], text |-> LineText(f.lines[f.at + 1], 1)]
    ELSE [file |-> [f EXCEPT !.eof = TRUE, !.fail = TRUE], text |-> <<>>]

\* while(getline(axtFile_, curLine)): lines that are empty or begin with #
\* are passed over; fields are the words of the line the loop stops at
RECURSIVE skipComments(_)
skipComments(f) ==
    IF f.at >= Len(f.lines)
    THEN [file |-> [f EXCEPT !.eof = TRUE, !.fail = TRUE], fields |-> <<>>]
    ELSE IF f.lines[f.at + 1] = <<>> THEN skipComments([f EXCEPT !.at = @ + 1])
    ELSE IF f.lines[f.at + 1][1][1] = "#" THEN skipComments([f EXCEPT !.at = @ + 1])
    ELSE [file |-> [f EXCEPT !.at = @ + 1], fields |-> f.lines[f.at + 1]]

\* the test of a chromosome field, as written: a field without "chr" in
\* front passes when its first character differs from none of X, 2, 3, 4
chrField(field) ==
    IF ~HasPrefix(field, <<"c", "h", "r">>)
    THEN IF \/ CharAt0(field) # "X"
            \/ CharAt0(field) # "2"
            \/ CharAt0(field) # "3"
            \/ CharAt0(field) # "4"
         THEN [ok |-> FALSE, name |-> field]
         ELSE [ok |-> TRUE, name |-> <<"c", "h", "r">> \o field]
    ELSE [ok |-> TRUE, name |-> field]

sizesChecked(a) ==
    IF Len(a.primarySeq_) # Len(a.alignSeq_)
    THEN Throw(a, "The sequence strings are not equal length")
    ELSE a

alignedRead(a, g) == sizesChecked([a EXCEPT !.axtFile_ = g.file, !.alignSeq_ = g.text])

afterPrimary(a) ==
    IF a.axtFile_.eof THEN Throw(a, "End of file reached before aligned sequence read")
    ELSE alignedRead(a, getlineAxt(a.axtFile_))

primaryRead(a, g) == afterPrimary([a EXCEPT !.axtFile_ = g.file, !.primarySeq_ = g.text])

readSequences(a) ==
    IF a.axtFile_.eof THEN Throw(a, "End of file reached before primary sequence read")
    ELSE primaryRead(a, getlineAxt(a.axtFile_))

alignedEndSet(a) ==
    IF a.alignedEnd_ = 0 THEN Throw(a, "Wrong primary sequence end") ELSE readSequences(a)

alignedStartSet(a, fields) ==
    IF a.alignedStart_ = 0 THEN Throw(a, "Wrong primary sequence start")
    ELSE alignedEndSet([a EXCEPT !.alignedEnd_ = strtoul(fields[7])])

\* c4 is the outcome of the test of fields[4], f1 what fields[1] has become
alignedChr(a, fields, f1, c4) ==
    IF ~c4.ok THEN Throw(a, "Wrong aligned chromosome field")
    ELSE alignedStartSet([a EXCEPT !.sameChr_ = IF c4.name = f1 THEN 1 ELSE 0,
                                   !.alignedStart_ = strtoul(fields[6])], fields)

primaryEndSet(a, fields) ==
    IF a.primaryEnd_ = 0 THEN Throw(a, "Wrong primary sequence end")
    ELSE IF a.primaryEnd_ < a.primaryStart_
    THEN Throw(a, "Position of the end of primary sequence not greater than the start")
    ELSE alignedChr(a, fields, a.chrID_, chrField(fields[5]))

primaryStartSet(a, fields, tmpChrID, tmpStart) ==
    IF a.primaryStart_ = 0 THEN Throw(a, "Wrong primary sequence start")
    ELSE IF a.primaryStart_ <= tmpStart /\ tmpChrID = a.chrID_
    THEN Throw(a, "Primary start of the current record not greater than the previous record")
    ELSE primaryEndSet([a EXCEPT !.primaryEnd_ = strtoul(fields[4])], fields)

\* c1 is the outcome of the test of fields[1]
primaryChr(a, fields, c1) ==
    IF ~c1.ok THEN Throw(a, "Wrong chromosome field")
    ELSE primaryStartSet([a EXCEPT !.chrID_ = c1.name, !.primaryStart_ = strtoul(fields[3])],
                         fields, a.chrID_, a.primaryStart_)

metaData(a, fields) ==
    IF fields = <<>> THEN Throw(a, "End of file")
    ELSE IF Len(fields) # 9 THEN Throw(a, "Wrong number of fields in .axt metada")
    ELSE primaryChr(a, fields, chrField(fields[2]))

fieldsRead(a, r) == metaData([a EXCEPT !.axtFile_ = r.file], r.fields)

\* ParseAXT::getNextRecord_
nextAxtRecord(a) == fieldsRead(a, skipComments(a.axtFile_))

\* what getSiteStates_ hands back through its reference parameters
SiteStates(a, primary, aligned, same) ==
    [a |-> a, primary |-> primary, aligned |-> aligned, same |-> same]

\* the loop over primarySeq_ from index i on (0-based), truePos being the
\* genomic position of the next base that is no gap
RECURSIVE scanRecord(_, _, _, _)
scanRecord(a, position, i, truePos) ==
    IF i >= Len(a.primarySeq_)
    THEN SiteStates(Throw(a, "Reached the end of file before finding a record"), NUL, NUL, 0)
    ELSE IF a.primarySeq_[i + 1] = "-" THEN scanRecord(a, position, i + 1, truePos)
    ELSE IF truePos = position
    THEN SiteStates(a, a.primarySeq_[i + 1], a.alignSeq_[i + 1], a.sameChr_)
    ELSE scanRecord(a, position, i + 1, truePos + 1)

\* ParseAXT::getSiteStates_; a string thrown by getNextRecord_ passes through
RECURSIVE getSiteStates_(_, _, _, _)
getSiteStates_(a, chromosome, position, correctChrFound) ==
    IF a.axtStatus # "ready" THEN SiteStates(a, NUL, NUL, 0)
    ELSE IF a.axtFile_.fail
    THEN SiteStates(Throw(a, "Reached the end of file before finding a record"), NUL, NUL, 0)
    ELSE IF a.chrID_ # chromosome
    THEN IF correctChrFound
         THEN SiteStates([a EXCEPT !.foundChr_ = chromosome], "-", "-", 0)
         ELSE getSiteStates_(nextAxtRecord(a), chromosome, position, correctChrFound)
    ELSE IF a.primaryEnd_ >= position
    THEN IF position < a.primaryStart_ THEN SiteStates(a, "-", "-", 0)
         ELSE scanRecord(a, position, 0, a.primaryStart_)
    ELSE getSiteStates_(nextAxtRecord(a), chromosome, position, TRUE)

toupper(c) == CASE c = "a" -> "A" [] c = "c" -> "C" [] c = "g" -> "G" [] c = "t" -> "T"
                [] c = "n" -> "N" [] OTHER -> c
isupper(c) == c \in {"A", "C", "G", "T", "N"}

\* the site string of a diverged position
siteInfo(chromName, iSite, r) ==
    [chr |-> chromName, pos |-> iSite, primary |-> r.primary, aligned |-> r.aligned,
     same |-> r.same, quality |-> IF isupper(r.primary) /\ isupper(r.aligned) THEN 1 ELSE 0]

\* the loop of getDivergedSites from position iSite on; r is what
\* getSiteStates_ gave for iSite
RECURSIVE divergedFrom(_, _, _, _)
divergedSite(a, chromName, iSite, end, r) ==
    IF r.a.axtStatus # "ready" THEN r.a
    ELSE IF r.primary = "-" \/ r.aligned = "-" THEN divergedFrom(r.a, chromName, iSite + 1, end)
    ELSE IF r.primary = "n" \/ r.aligned = "n" THEN divergedFrom(r.a, chromName, iSite + 1, end)
    ELSE IF r.primary = "N" \/ r.aligned = "N" THEN divergedFrom(r.a, chromName, iSite + 1, end)
    ELSE IF r.primary = r.aligned \/ toupper(r.primary) = toupper(r.aligned)
    THEN divergedFrom([r.a EXCEPT !.length = @ + 1], chromName, iSite + 1, end)
    ELSE divergedFrom([r.a EXCEPT !.sites = Append(@, siteInfo(chromName, iSite, r)),
                                  !.length = @ + 1], chromName, iSite + 1, end)

divergedFrom(a, chromName, iSite, end) ==
    IF iSite > end THEN a
    ELSE IF chromName = a.foundChr_ THEN a
    ELSE divergedSite(a, chromName, iSite, end, getSiteStates_(a, chromName, iSite, FALSE))

\* ParseAXT::getDivergedSites(chromName, start, end, sites, length)
getDivergedSites(a, chromName, start, end) ==
    IF start >= end THEN Throw(a, "start position must come before the end position")
    ELSE divergedFrom([a EXCEPT !.length = 0, !.sites = <<>>], chromName, start, end)

(* --------------------------- the alignment file ------------------------ *)
ChrX  == <<"c", "h", "r", "X">>
Chr2L == <<"c", "h", "r", "2", "L">>
\* the arm names without "chr" in front
BareArms == { <<"X">>, <<"2", "L">>, <<"2", "R">>, <<"3", "L">>, <<"3", "R">>, <<"4">> }

\* one alignment column: the primary and the aligned character
Columns == { <<"A", "A">>, <<"A", "C">>, <<"a", "c">>, <<"A", "-">>, <<"-", "A">> }

Bare(cols) == Cardinality({k \in 1..Len(cols) : cols[k][1] # "-"})

\* the four lines of a record: meta-data of nine fields, the two sequences,
\* an empty line
AxtRecord(c1, c2, start, cols) ==
    << << <<"0">>, c1, ToStr(start), ToStr(start + Bare(cols) - 1),
          c2, ToStr(start), ToStr(start + Bare(cols) - 1), <<"+">>, <<"1">> >>,
       << [k \in 1..Len(cols) |-> cols[k][1]] >>,
       << [k \in 1..Len(cols) |-> cols[k][2]] >>,
       <<>> >>

\* what may follow a first record that ends at position e: nothing, or a
\* record on the same or the next chromosome, behind it or not
SecondRecords(e) ==
    {<<>>} \cup {AxtRecord(c, ChrX, st, << <<"A", "C">>, <<"A", "A">> >>) :
                   c \in {ChrX, Chr2L}, st \in {1, e + 1}}

AxtFiles(maxStart, maxLen) ==
    UNION { {AxtRecord(c1, c2, st, cols) \o t : t \in SecondRecords(st + Bare(cols) - 1)}
            : c1 \in {ChrX, Chr2L, <<"X">>, <<"2", "L">>}, c2 \in {ChrX, <<"X">>},
              st \in 1..maxStart, cols \in [1..maxLen -> Columns] }

InitAxt ==
    /\ Constructed({<<>>}, {FreshParams})
    /\ SorterAt("idle")
    /\ Opened(AxtFiles(MaxAxtStart, MaxAxtLen), "opened")

\* the body of the constructor
AxtConstruct ==
    /\ axtStatus = "opened"
    /\ AxtBecomes(nextAxtRecord([Axt EXCEPT !.axtStatus = "ready"]))

\* a caller's query for a range; the sites vector is the one it already holds
GetDivergedSites ==
    /\ axtStatus = "ready"
    /\ \E chromName \in {ChrX, Chr2L}, start, end \in 1..(MaxAxtStart + MaxAxtLen) :
          AxtBecomes(getDivergedSites(Axt, chromName, start, end))

NextAxt == AxtConstruct \/ GetDivergedSites

SpecAxt == InitAxt /\ [][NextAxt]_vars

\* C27: a range query only appends to the caller's sites vector: what the
\* vector held before the call is a prefix of what it holds after.
C27_SitesOnlyAppended ==
    [][/\ Len(sites') >= Len(sites)
       /\ SubSeq(sites', 1, Len(sites)) = sites]_vars

\* the meta-data line read last
LastMeta == axtFile_.lines[axtFile_.at]

\* C28: a record whose primary or aligned chromosome field is an arm name
\* without "chr" is not refused for that field, and the chromosome of a
\* record read is held with "chr" in front.
C28_ChrPrefixOptional ==
    /\ axtStatus = "Wrong chromosome field" => LastMeta[2] \notin BareArms
    /\ axtStatus = "Wrong aligned chromosome field" => LastMeta[5] \notin BareArms
    /\ (axtStatus = "ready" /\ axtFile_.at > 0) => HasPrefix(chrID_, <<"c", "h", "r">>)

(* ===================== the strands of an overlapping pair =============== *)
MaxPairLen == 6

\* two records of one chromosome, the first at 1, the second starting
\* behind it or inside it, on every combination of strands
PairStreams(maxLen) ==
    { << HeaderOf(<<"X">>, 1, n1, r1, 1), SeqLineOf(n1),
         HeaderOf(<<"X">>, s2, s2 + n2 - 1, r2, 2), SeqLineOf(n2) >> :
         n1 \in 2..maxLen, n2 \in 2..maxLen, s2 \in 2..(maxLen + 1), r1 \in BOOLEAN, r2 \in BOOLEAN }

InitPair == InitOn(PairStreams(MaxPairLen))
SpecPair == InitPair /\ [][Next]_vars

\* the same header written for the other strand, and the stream holding it
OtherStrand(h) == HeaderLine([h.written EXCEPT !.compl = ~@], h.fbgn[2])
WithCandidate(flip) ==
    IF flip THEN [input EXCEPT ![pos + 1] = OtherStrand(@)] ELSE input
\* the pending record on the other strand
WithPending(flip) ==
    IF flip THEN [Obj EXCEPT !.positions_ = Reversed(@), !.sequence_ = Reversed(@)] ELSE Obj

\* what a resolution comes to, strands set aside
Resolution(st) ==
    [delLength |-> st.delLength_,
     status    |-> st.status,
     branch    |-> [n \in 1..Len(st.logFile_) |-> st.logFile_[n].kind],
     kept      |-> Elems(st.positions_),
     flushed   |-> [n \in 1..Len(st.ffCalls) |-> Elems(st.ffCalls[n].positions)]]

\* index of coordinate c in the list p
IndexOf(p, c) == CHOOSE k \in 1..Len(p) : p[k] = c

\* C29: with a record pending and a header of its chromosome next, the
\* overlap count, delLength, branch and retained coordinates that the call
\* comes to are the same for all four strand combinations of the two
\* records, and the bases kept of the candidate are those at its retained
\* coordinates.
C29_StrandIndependence ==
    (status = "running" /\ Pending)
        => /\ \A fp, fc \in BOOLEAN :
                 Resolution(getNextRecord_(WithPending(fp), WithCandidate(fc), 0))
                     = Resolution(getNextRecord_(Obj, input, 0))
           /\ LET after == getNextRecord_(Obj, input, 0)
              IN  (after.status = "running" /\ after.sequence_ # <<>>
                     /\ Elems(after.positions_) \subseteq Elems(Cand.positions))
                     => /\ Len(after.sequence_) = Len(after.positions_)
                        /\ \A k \in 1..Len(after.positions_) :
                              after.sequence_[k]
                                  = CandLine[IndexOf(Cand.positions, after.positions_[k])]

\* the coordinate list the header of gene id was written for
ListOf(id) == parseHeader_(input[CHOOSE k \in HeaderIdx : input[k].fbgn = id]).positions

\* how many coordinates of the transcript's start a retained list p lacks
LeadRemoved(p, id) == IndexOf(ListOf(id), p[1]) - 1

\* C30: whatever is cut from the transcript start of a record is a multiple
\* of three: the coordinates kept of the pending record and of every record
\* classified begin a multiple of three behind the first coordinate of the
\* header, and so do the bases kept of a sequence line.
C30_FramePreserved ==
    /\ (status = "running" /\ positions_ # <<>> /\ positions_[1] \in Elems(ListOf(fbgn_)))
          => LeadRemoved(positions_, fbgn_) % 3 = 0
    /\ \A n \in 1..Len(ffCalls) :
          (ffCalls[n].positions # <<>>
             /\ ffCalls[n].positions[1] \in Elems(ListOf(ffCalls[n].fbgn)))
              => LeadRemoved(ffCalls[n].positions, ffCalls[n].fbgn) % 3 = 0
    /\ (status = "running" /\ pos > 0 /\ sequence_ # <<>> /\ input[pos].kind = "S"
          /\ Len(sequence_) < Len(input[pos].bases)
          /\ sequence_ = Drop(input[pos].bases, Len(input[pos].bases) - Len(sequence_)))
          => (Len(input[pos].bases) - Len(sequence_)) % 3 = 0

(* ============================== termination ============================= *)
\* The program is one thread that runs until it returns or throws: a call
\* that can be made is made.  For the call of getNextRecord_ weak fairness
\* is written out, a call being possible (and changing the state) exactly
\* while the run is on and lines remain.
CallIsFair == <>[](status = "running" /\ moreInput) => []<><<GetNextRecord>>_vars

SpecFair == Init /\ [][Next]_vars /\ CallIsFair /\ WF_vars(Flush)

\* the run has ended
Ended == status \in {"done", "error"}

\* C31: every call of getNextRecord_ made while lines remain takes at least
\* one line from the stream, the overlap count looks at no more coordinates
\* than the pending record has, a run that ends without an error has read
\* the whole stream, and every run ends.
C31_Terminates ==
    /\ []((status = "running" /\ moreInput)
             => \A g \in OOBValues \cup {SegFault} : getNextRecord_(Obj, input, g).pos > pos)
    /\ [](Pending => overlapCount(positions_, positions_[1] < Last(positions_), CandMin)
                        <= Len(positions_))
    /\ [](status = "done" => pos = Len(input))
    /\ <>Ended

\* a stream of three records has been read to its end
C31_Witness == status = "done" /\ pos = Len(input) /\ Len(input) = 2 * MaxRecords

(* ===================== the reads of the classifier ====================== *)
\* C32: every read of positions_ that a classification makes is inside the
\* list: the index i + 3 read for a qualifying codon at offset i is below
\* positions_.size(), in every classification of every record.
C32_PositionsReadInBounds ==
    \A n \in 1..Len(ffCalls) :
        LET q == QualifyingOffsets(ffCalls[n].sequence, 0)
        IN  \A k \in 1..Len(q) : q[k] + 3 < Len(ffCalls[n].positions)

(* ======================= the unsigned differences ======================= *)
\* C33: in a call that resolves an overlap no size difference wraps: the
\* value left in delStart_ is a length of one of the two records, and when
\* the pending record is truncated its sequence_ holds the delLength_ bases
\* that are taken from it, so that the truncation goes through to the
\* classification of what is left.
C33_NoSizeWrap ==
    [][(Pending /\ Called /\ Detected)
          => /\ delStart_' <= Len(positions_) + Len(Cand.positions)
             /\ delLength_' < Len(positions_)
                   => /\ Len(ffCalls') = Len(ffCalls) + 1
                      /\ Len(ffCalls'[Len(ffCalls')].sequence) + delLength_'
                            = Len(sequence_)]_vars

(* ==================== bases against their coordinates =================== *)
\* the sequence line read last and the coordinate list of its header
LineRead  == input[pos].bases
OwnCoords == parseHeader_(input[pos - 1]).positions

\* C34: when the sequence line of a candidate adopted in an overlap
\* resolution has been read, the piece cut from it lay inside the line
\* (delStart_ + delLength_ is at most its length), and what is stored has a
\* base for every coordinate kept, each the base the line carries at that
\* coordinate.
C34_BasesAligned ==
    (pos > 1 /\ input[pos].kind = "S" /\ input[pos - 1].kind = "H"
       /\ positions_ # <<>> /\ delLength_ # 0)
        => /\ delStart_ + delLength_ <= Len(LineRead)
           /\ sequence_ # <<>>
                 => /\ Len(sequence_) = Len(positions_)
                    /\ \A k \in 1..Len(positions_) :
                          sequence_[k] = LineRead[IndexOf(OwnCoords, positions_[k])]

(* ============================ the pending slot ========================== *)
\* the headers read so far that carry the gene identifier of the slot
SlotHeaders == {k \in HeaderIdx : k <= pos /\ input[k].fbgn = fbgn_}

\* C35: between calls, whenever the slot holds coordinates, end_ is the
\* highest of them, and chr_ and fbgn_ are the chromosome and the gene
\* identifier of the one record read whose coordinate list they come from.
C35_SlotConsistent ==
    (status # "error" /\ positions_ # <<>>)
        => /\ end_ = SeqMax(positions_)
           /\ Cardinality(SlotHeaders) = 1
           /\ \A k \in SlotHeaders :
                 chr_ = ChrOf(k) /\ Elems(positions_) \subseteq CoordsOf(k)

(* ===================== whose name a site record bears =================== *)
\* the record of the stream that a classification was made of: its header
\* carries the gene identifier and the chromosome the classification ran
\* under, and its coordinate list holds every coordinate classified
OwnerOf(call) ==
    {k \in HeaderIdx : /\ input[k].fbgn = call.fbgn
                       /\ ChrOf(k) = call.chr
                       /\ Elems(call.positions) \subseteq CoordsOf(k)}

\* s is the line, or the line with one run of bases taken out
CutFrom(s, line) ==
    \E a \in 0..Len(line), n \in 0..Len(line) :
       a + n <= Len(line) /\ s = SubSeq(line, 1, a) \o SubSeq(line, a + n + 1, Len(line))

\* C36: every classification of coordinates runs under the chromosome and
\* the gene identifier of the record the coordinates come from, whatever
\* header led to it, and every site in the sink bears the chromosome and the
\* gene identifier of a classification that was given bases of that record's
\* sequence line.
C36_SiteBearsOwnRecord ==
    /\ \A n \in 1..Len(ffCalls) :
          ffCalls[n].positions # <<>> => OwnerOf(ffCalls[n]) # {}
    /\ \A n \in 1..Len(ffSites_) :
          \E m \in 1..Len(ffCalls) :
             /\ ffSites_[n].chr = ffCalls[m].chr
             /\ ffSites_[n].fbgn = ffCalls[m].fbgn
             /\ ffCalls[m].positions # <<>>
             /\ ffCalls[m].sequence # <<>>
             /\ \E k \in OwnerOf(ffCalls[m]) : CutFrom(ffCalls[m].sequence, input[k + 1].bases)

\* after a switch of chromosome the sites in the sink are those of the
\* record read last, not of the first
C36_Witness ==
    /\ status = "done"
    /\ ffSites_ # <<>>
    /\ Len(input) >= 4
    /\ ChrOf(1) # chr_
    /\ Last(ffSites_).fbgn = fbgn_
    /\ Last(ffSites_).chr = chr_

(* ======================= a middle base that is none ===================== *)
\* the letters that name a base, in either case
BaseLetters == PlainLetters \cup {"a", "c", "g", "t"}

\* C37: a record made of whole codons whose middle bases are no bases (N)
\* puts no site into the sink, whatever the first bases are.
C37_UnknownMiddleBaseSkipped ==
    (Classified /\ Len(sequence_) % 3 = 0
       /\ \A i \in CodonOffsets(sequence_) : sequence_[i + 2] \notin BaseLetters)
        => ffSites_ = <<>>

(* ==================== fastaSort: what becomes of a record =============== *)
RecChr(r)   == r[1].written.chr
RecStart(r) == r[1].written.ranges[1].s
RecEnd(r)   == r[1].written.ranges[1].e

\* the elimination rules: another record of the chromosome starts at the
\* same position, or is of the same gene, and is at least as long; or it
\* spans the record whole
Eliminates(q, r) ==
    /\ q # r
    /\ RecChr(q) = RecChr(r)
    /\ \/ RecStart(q) = RecStart(r) /\ Len(q[2]) >= Len(r[2])
       \/ q[1].fbgn = r[1].fbgn /\ Len(q[2]) >= Len(r[2])
       \/ RecStart(q) <= RecStart(r) /\ RecEnd(r) <= RecEnd(q)

\* C38: when the output is closed every record read is in it, the last one
\* of the file and the last one kept of each chromosome included, unless
\* another record read eliminates it.
C38_NoRecordLost ==
    sortPhase = "closed"
        => \A r \in fastaIn :
              \/ \E n \in 1..Len(fastaOut) : fastaOut[n] = r
              \/ \E q \in fastaIn : Eliminates(q, r)

====
